---- MODULE Spec2Model ----
(***************************************************************************)
(* PANDA key exchange (package panda): the secret-string utility, the     *)
(* shared-secret record, and the KeyExchange state machine driven by      *)
(* Run() through an untrusted Meeting Place.                               *)
(*                                                                         *)
(* Bytes are numbers 0..255, strings are sequences of one-character       *)
(* strings.  Cryptographic primitives are symbolic terms (records with a  *)
(* tag field t): a ciphertext opens only under the key that made it.      *)
(***************************************************************************)
EXTENDS Integers, Sequences, FiniteSets, TLC

(***************************************************************************)
(* Bounds of the model                                                     *)
(***************************************************************************)
\* random 16-byte blocks the secret-string generator may draw
MaxSeed == 2
\* DH private keys the random source may return to party 1 are 1..MaxPriv
MaxPriv == 2
\* payloads (kxBytes) have 1..MaxPayloadLen bytes
MaxPayloadLen == 2
\* decks of cards a shared secret may have are 0..MaxDecks
MaxDecks == 1

\* Run() is called at most MaxRuns times by a party
MaxRuns == 2
\* a party rebuilds its exchange from a snapshot at most MaxResumes times
MaxResumes == 1

(***************************************************************************)
(* Program constants                                                       *)
(***************************************************************************)
generatedSecretStringPrefix == <<"r", "!">>
generatedSecretStringPrefix2 == <<"r", "[">>
\* NewSecretString: make([]byte, 16, 18)
secretRandLen == 16
\* isValidSecretString: var b [18]byte
secretDecodedLen == 18
\* 24 /* nonce */
nonceLen == 24
\* 4 /* length */
lengthLen == 4
\* secretbox.Overhead
secretboxOverhead == 16
\* [32]byte DH values
dhLen == 32

\* party 1 holds the exchange under study: it may call Run() repeatedly,
\* be shut down and resume; party 2 is its peer and calls Run() once
Parties == {1, 2}
Other(i) == 3 - i
RunBudget(i) == IF i = 1 THEN MaxRuns ELSE 1
ResumeBudget(i) == IF i = 1 THEN MaxResumes ELSE 0

(***************************************************************************)
(* encoding/hex                                                            *)
(***************************************************************************)
hexDigits == <<"0", "1", "2", "3", "4", "5", "6", "7", "8", "9", "a", "b", "c", "d", "e", "f">>
hexUpper == <<"0", "1", "2", "3", "4", "5", "6", "7", "8", "9", "A", "B", "C", "D", "E", "F">>

\* hex.EncodeToString: two lower-case digits per byte
EncodeToString(b) ==
    [j \in 1..(2 * Len(b)) |->
        IF j % 2 = 1 THEN hexDigits[(b[(j + 1) \div 2] \div 16) + 1]
                     ELSE hexDigits[(b[j \div 2] % 16) + 1]]

\* fromHexChar: value of a hex digit of either case, -1 for any other character
fromHexChar(c) ==
    IF \E v \in 1..16 : hexDigits[v] = c
    THEN (CHOOSE v \in 1..16 : hexDigits[v] = c) - 1
    ELSE IF \E v \in 1..16 : hexUpper[v] = c
         THEN (CHOOSE v \in 1..16 : hexUpper[v] = c) - 1
         ELSE -1

\* hex.Decode succeeds iff every character is a hex digit (length is even here)
DecodeOK(s) == \A j \in 1..Len(s) : fromHexChar(s[j]) >= 0
Decode(s) ==
    [j \in 1..(Len(s) \div 2) |-> 16 * fromHexChar(s[2 * j - 1]) + fromHexChar(s[2 * j])]

HasPrefix(s, p) == Len(s) >= Len(p) /\ SubSeq(s, 1, Len(p)) = p

(***************************************************************************)
(* crypto/sha256, as far as the code uses it: digest[0] and digest[1].    *)
(* SHA-256 is a fixed compressing function; its 16-bit prefix is not      *)
(* injective on strings that differ in one hex digit (r!36b70ce738543f40  *)
(* 8d522b9e641936b9b6a5 and r!36b70ce7f8543f408d522b9e641936b9b6a5 carry  *)
(* the same two checksum bytes).  The model keeps that: a weighted sum.   *)
(***************************************************************************)
RECURSIVE WeightedSum(_, _, _)
WeightedSum(b, j, pow) ==
    IF j > Len(b) THEN 0
    ELSE ((IF pow = 1 THEN j ELSE j * j) * b[j] + WeightedSum(b, j + 1, pow)) % 256

digest01(b) == <<(WeightedSum(b, 1, 1) + 7) % 256, (WeightedSum(b, 1, 2) + 11) % 256>>

(***************************************************************************)
(* Secret strings                                                          *)
(***************************************************************************)
\* the 16 bytes rand.Read returns for seed r
RandBlock(r) == [j \in 1..secretRandLen |-> (37 * r + 11 * j + r * j * j) % 256]

NewSecretString(r) ==
    LET b == RandBlock(r)
        digest == digest01(b)
    IN generatedSecretStringPrefix \o EncodeToString(b \o <<digest[1], digest[2]>>)

\* isValidSecretString that compares only the first checksum byte
isValidSecretString_FirstByteOnly(str) ==
    IF ~HasPrefix(str, generatedSecretStringPrefix) /\ ~HasPrefix(str, generatedSecretStringPrefix2)
    THEN FALSE
    ELSE LET s == SubSeq(str, Len(generatedSecretStringPrefix) + 1, Len(str))
         IN IF Len(s) % 2 = 1 \/ Len(s) \div 2 # secretDecodedLen
            THEN FALSE
            ELSE IF ~DecodeOK(s)
                 THEN FALSE
                 ELSE LET b == Decode(s)
                          digest == digest01(SubSeq(b, 1, secretRandLen))
                      IN b[17] = digest[1]

isValidSecretString(str) ==
    IF ~HasPrefix(str, generatedSecretStringPrefix) /\ ~HasPrefix(str, generatedSecretStringPrefix2)
    THEN FALSE
    ELSE LET s == SubSeq(str, Len(generatedSecretStringPrefix) + 1, Len(str))
         IN IF Len(s) % 2 = 1 \/ Len(s) \div 2 # secretDecodedLen
            THEN FALSE
            ELSE IF ~DecodeOK(s)
                 THEN FALSE
                 ELSE LET b == Decode(s)
                          digest == digest01(SubSeq(b, 1, secretRandLen))
                      IN b[17] = digest[1] /\ b[18] = digest[2]

IsAcceptableSecretString(s) ==
    IF ~HasPrefix(s, generatedSecretStringPrefix) /\ ~HasPrefix(s, generatedSecretStringPrefix2)
    THEN TRUE
    ELSE isValidSecretString(s)

(***************************************************************************)
(* Shared secret                                                           *)
(***************************************************************************)
\* length of CardStack.counts (the CardStack type is outside the sources)
numCards == 4

ZeroCounts == [j \in 1..numCards |-> 0]

\* CardStack.Canonicalise: the fixed-size per-card count vector
Canonicalise(cards) == cards

TextSecret(s) ==
    [Secret |-> s, Cards |-> [NumDecks |-> 0, counts |-> ZeroCounts],
     Day |-> 0, Month |-> 0, Year |-> 0, Hours |-> 0, Minutes |-> 0]

isStrongRandom(s) ==
    HasPrefix(s.Secret, generatedSecretStringPrefix2) /\ isValidSecretString(s.Secret)

\* an unset optional field reads as its zero value, as the generated getters do
NoTime == [set |-> FALSE, Day |-> 0, Month |-> 0, Year |-> 0, Hours |-> 0, Minutes |-> 0]

toProto(s) ==
    [Secret    |-> IF Len(s.Secret) > 0 THEN s.Secret ELSE <<>>,
     NumDecks  |-> IF s.Cards.NumDecks > 0 THEN s.Cards.NumDecks ELSE 0,
     CardCount |-> IF s.Cards.NumDecks > 0 THEN Canonicalise(s.Cards).counts ELSE <<>>,
     Time      |-> IF s.Year # 0
                   THEN [set |-> TRUE, Day |-> s.Day, Month |-> s.Month, Year |-> s.Year,
                         Hours |-> s.Hours, Minutes |-> s.Minutes]
                   ELSE NoTime]

\* newSharedSecret returns (ret, ok)
newSharedSecret(p) ==
    LET ret == [Secret |-> p.Secret,
                Cards |-> [NumDecks |-> p.NumDecks,
                           counts |-> IF p.NumDecks > 0 /\ Len(p.CardCount) = numCards
                                      THEN p.CardCount ELSE ZeroCounts],
                Day |-> p.Time.Day, Month |-> p.Time.Month, Year |-> p.Time.Year,
                Hours |-> p.Time.Hours, Minutes |-> p.Time.Minutes]
    IN IF ret.Cards.NumDecks > 0
       THEN IF Len(p.CardCount) # numCards
            THEN [ok |-> FALSE, ret |-> ret]
            ELSE [ok |-> TRUE, ret |-> ret]
       ELSE IF Len(ret.Secret) = 0
            THEN [ok |-> FALSE, ret |-> ret]
            ELSE [ok |-> TRUE, ret |-> ret]

(***************************************************************************)
(* Errors                                                                  *)
(***************************************************************************)
ShutdownErr == "panda: shutdown requested"
ErrTooLarge == "panda: key exchange too large for meeting place"
ErrInvalidSecret == "panda: invalid shared secret in serialised key exchange"
ErrInitialTooLarge == "panda: initial message too large for meeting place"
ErrReplyTooSmall == "panda: meeting point reply too small"
ErrAuth == "panda: peer's message cannot be authenticated"
ErrInvalid == "panda: peer's message is invalid"
ErrTruncated == "panda: peer's message is truncated"
\* an error of the random source (io.ReadFull) and one of the Meeting Place
ErrRand == "rand: read failed"
ErrMeetingPlace == "meeting place: exchange failed"
NoErr == "nil"

(***************************************************************************)
(* Symbolic byte arrays and primitives                                     *)
(***************************************************************************)
INIT == 0
EXCHANGE1 == 1
EXCHANGE2 == 2

\* an all-zero [32]byte
Zero32 == [t |-> "zero"]
\* a nil []byte
NilBytes == [t |-> "nil", len |-> 0]

\* hkdf (strong secret or Testing) or scrypt over the serialised secret:
\* 96 bytes read as key, meeting1, meeting2
Derived(mode, serialised, part) == [t |-> "kdf", mode |-> mode, sec |-> serialised, part |-> part]

\* curve25519.ScalarBaseMult: the public value of private key d
ScalarBaseMult(d) == [t |-> "pt", d |-> d]

\* curve25519.ScalarMult: commutes on honest values, anything else on other points
ScalarMult(d, pt) ==
    IF pt.t = "pt"
    THEN [t |-> "dh", lo |-> IF d < pt.d THEN d ELSE pt.d, hi |-> IF d < pt.d THEN pt.d ELSE d]
    ELSE [t |-> "dhx", d |-> d, pt |-> pt]

\* sharedKey[0] == 0 && sharedKey[1] == 0.  X25519 output bytes are spread
\* evenly: one shared key in 65536 begins with two zero bytes (private keys
\* 01..01 and 33c75def7eca13b3eeedaa509089e546c4023a1324c1ecda854e8c169a9e3854
\* give 0000276a8b09...).  In the model: the honest pair {1, 2}, and what
\* private key 2 makes of a point decrypted under the wrong key.
beginsWithZeros(k) ==
    \/ k.t = "zero"
    \/ k.t = "dh" /\ k.lo * k.hi = 2
    \/ k.t = "dhx" /\ k.d = 2

\* rijndael single block: message1 carries Encrypt(key, dhPublic) in its first 32 bytes
Message1(key, pub, l) == [t |-> "msg1", k |-> key, p |-> pub, len |-> l]

\* rijndael Decrypt of the first 32 bytes of a reply
Decrypt(key, reply) ==
    IF reply.t = "msg1" /\ reply.k = key
    THEN reply.p
    ELSE [t |-> "junk", k |-> key, of |-> reply]

\* nonce || secretbox.Seal(padded, nonce, sharedKey); padded is the 4-byte
\* little-endian length l, then data (payload and random fill)
Message2(nonce, sharedKey, l, data, paddedLen) ==
    [t |-> "msg2", nonce |-> nonce, boxk |-> sharedKey, boxn |-> nonce, intact |-> TRUE,
     l |-> l, data |-> data, len |-> paddedLen]

\* secretbox.Open(reply[24:], nonce, key): ok iff sealed under this key and
\* nonce and not altered since
OpenOK(reply, key) ==
    /\ reply.t = "msg2"
    /\ reply.len >= nonceLen + secretboxOverhead
    /\ reply.boxk = key
    /\ reply.boxn = reply.nonce
    /\ reply.intact

\* a random fill byte
fillByte == 238

(***************************************************************************)
(* KeyExchange                                                             *)
(***************************************************************************)
\* a bytes field that is not on the wire, and DhPrivate when it is not
Absent == [t |-> "absent"]
AbsentPriv == -1

\* (*KeyExchange)(nil): what a failed constructor returns
NilKx ==
    [Log |-> FALSE, Testing |-> FALSE, ShutdownChan |-> FALSE, padding |-> 0,
     status |-> INIT, sharedSecret |-> TextSecret(<<>>), serialised |-> Absent, kxBytes |-> <<>>,
     key |-> Zero32, meeting1 |-> Zero32, meeting2 |-> Zero32,
     dhPublic |-> Zero32, dhPrivate |-> 0, sharedKey |-> Zero32,
     message1 |-> NilBytes, message2 |-> NilBytes]

\* updateSerialised that leaves the two messages out of the snapshot
updateSerialised_NoMessages(k) ==
    LET p == [Status           |-> k.status,
              SharedSecret     |-> toProto(k.sharedSecret),
              KeyExchangeBytes |-> k.kxBytes,
              DhPrivate |-> IF k.status # INIT THEN k.dhPrivate ELSE AbsentPriv,
              Key       |-> IF k.status # INIT THEN k.key ELSE Absent,
              Meeting1  |-> IF k.status # INIT THEN k.meeting1 ELSE Absent,
              Meeting2  |-> IF k.status # INIT THEN k.meeting2 ELSE Absent,
              Message1  |-> Absent,
              Message2  |-> Absent,
              SharedKey |-> IF k.status # INIT THEN k.sharedKey ELSE Absent]
    IN [k EXCEPT !.serialised = p]

\* updateSerialised: proto.Marshal of the fields, installed under the lock
updateSerialised(k) ==
    LET p == [Status           |-> k.status,
              SharedSecret     |-> toProto(k.sharedSecret),
              KeyExchangeBytes |-> k.kxBytes,
              DhPrivate |-> IF k.status # INIT THEN k.dhPrivate ELSE AbsentPriv,
              Key       |-> IF k.status # INIT THEN k.key ELSE Absent,
              Meeting1  |-> IF k.status # INIT THEN k.meeting1 ELSE Absent,
              Meeting2  |-> IF k.status # INIT THEN k.meeting2 ELSE Absent,
              Message1  |-> IF k.status # INIT /\ k.message1 # NilBytes THEN k.message1 ELSE Absent,
              Message2  |-> IF k.status # INIT /\ k.message2 # NilBytes THEN k.message2 ELSE Absent,
              SharedKey |-> IF k.status # INIT THEN k.sharedKey ELSE Absent]
    IN [k EXCEPT !.serialised = p]

\* Marshal: the snapshot under the lock
Marshal(k) == k.serialised

\* NewKeyExchange that leaves dhPublic as allocated
NewKeyExchange_NoBaseMult(d, padding, sharedSecret, kxBytes) ==
    IF nonceLen + lengthLen + Len(kxBytes) + secretboxOverhead > padding
    THEN [err |-> ErrTooLarge, kx |-> NilKx]
    ELSE [err |-> NoErr,
          kx |-> updateSerialised(
                   [NilKx EXCEPT !.Log = TRUE, !.padding = padding, !.status = INIT,
                                 !.sharedSecret = sharedSecret, !.kxBytes = kxBytes,
                                 !.dhPrivate = d])]

\* NewKeyExchange(rand, meetingPlace, sharedSecret, kxBytes); d is what
\* io.ReadFull(rand, dhPrivate) delivers, padding is meetingPlace.Padding()
NewKeyExchange(d, padding, sharedSecret, kxBytes) ==
    IF nonceLen + lengthLen + Len(kxBytes) + secretboxOverhead > padding
    THEN [err |-> ErrTooLarge, kx |-> NilKx]
    ELSE [err |-> NoErr,
          kx |-> updateSerialised(
                   [NilKx EXCEPT !.Log = TRUE, !.padding = padding, !.status = INIT,
                                 !.sharedSecret = sharedSecret, !.kxBytes = kxBytes,
                                 !.dhPrivate = d, !.dhPublic = ScalarBaseMult(d)])]

\* copy(dst[:], field): an absent field leaves the zero array
CopyOf(field) == IF field = Absent THEN Zero32 ELSE field
BytesOf(field) == IF field = Absent THEN NilBytes ELSE field

\* UnmarshalKeyExchange that does not restore the status
UnmarshalKeyExchange_StatusInit(padding, serialised) ==
    LET p == serialised
        ss == newSharedSecret(p.SharedSecret)
        dhPrivate == IF p.DhPrivate = AbsentPriv THEN 0 ELSE p.DhPrivate
    IN IF ~ss.ok
       THEN [err |-> ErrInvalidSecret, kx |-> NilKx]
       ELSE [err |-> NoErr,
             kx |-> [NilKx EXCEPT !.padding = padding, !.status = INIT,
                                  !.sharedSecret = ss.ret, !.serialised = serialised,
                                  !.kxBytes = p.KeyExchangeBytes,
                                  !.message1 = BytesOf(p.Message1), !.message2 = BytesOf(p.Message2),
                                  !.key = CopyOf(p.Key), !.meeting1 = CopyOf(p.Meeting1),
                                  !.meeting2 = CopyOf(p.Meeting2), !.sharedKey = CopyOf(p.SharedKey),
                                  !.dhPrivate = dhPrivate, !.dhPublic = ScalarBaseMult(dhPrivate)]]

\* UnmarshalKeyExchange(rand, meetingPlace, serialised)
UnmarshalKeyExchange(padding, serialised) ==
    LET p == serialised
        ss == newSharedSecret(p.SharedSecret)
        dhPrivate == IF p.DhPrivate = AbsentPriv THEN 0 ELSE p.DhPrivate
    IN IF ~ss.ok
       THEN [err |-> ErrInvalidSecret, kx |-> NilKx]
       ELSE [err |-> NoErr,
             kx |-> [NilKx EXCEPT !.padding = padding, !.status = p.Status,
                                  !.sharedSecret = ss.ret, !.serialised = serialised,
                                  !.kxBytes = p.KeyExchangeBytes,
                                  !.message1 = BytesOf(p.Message1), !.message2 = BytesOf(p.Message2),
                                  !.key = CopyOf(p.Key), !.meeting1 = CopyOf(p.Meeting1),
                                  !.meeting2 = CopyOf(p.Meeting2), !.sharedKey = CopyOf(p.SharedKey),
                                  !.dhPrivate = dhPrivate, !.dhPublic = ScalarBaseMult(dhPrivate)]]

\* shouldStop: a receive on the closed channel is ready, on a nil or open one it is not
shouldStop(k, closed) == k.ShutdownChan /\ closed

\* derivePassword; randOK: the random source delivers (io.ReadFull returns nil).
\* The subprocess path of linux/386 yields the same 96 bytes as scrypt.Key.
derivePassword(k, randOK) ==
    LET serialised == toProto(k.sharedSecret)
        mode == IF k.Testing \/ isStrongRandom(k.sharedSecret) THEN "hkdf" ELSE "scrypt"
        k1 == [k EXCEPT !.key = Derived(mode, serialised, "key"),
                        !.meeting1 = Derived(mode, serialised, "meeting1"),
                        !.meeting2 = Derived(mode, serialised, "meeting2")]
        l == IF dhLen < k.padding THEN k.padding ELSE dhLen
        k2 == [k1 EXCEPT !.message1 = Message1(k1.key, k1.dhPublic, l)]
    IN IF dhLen > k.padding
       THEN [err |-> ErrInitialTooLarge, kx |-> k1]
       ELSE IF l > dhLen /\ ~randOK
            THEN [err |-> ErrRand, kx |-> k2]
            ELSE [err |-> NoErr, kx |-> k2]

\* padded[4:] after copy(padded[4:], kxBytes) and the random fill
PaddedData(kxBytes, n) ==
    [j \in 1..(n - lengthLen) |-> IF j <= Len(kxBytes) THEN kxBytes[j] ELSE fillByte]

\* exchange1 from the Meeting Place's answer (reply, err) on: randOK as above,
\* nonce is what the random source delivers for the nonce
exchange1(k, mpErr, reply, randOK, nonce) ==
    LET peerDHPublic == Decrypt(k.key, reply)
        k1 == [k EXCEPT !.sharedKey = ScalarMult(k.dhPrivate, peerDHPublic)]
        paddedLen == k.padding
        n == paddedLen - nonceLen - secretboxOverhead
        k2 == [k1 EXCEPT !.message2 =
                 Message2(nonce, k1.sharedKey, Len(k.kxBytes), PaddedData(k.kxBytes, n), paddedLen)]
    IN IF mpErr # NoErr
       THEN [err |-> mpErr, panic |-> "", kx |-> k]
       ELSE IF reply.len < dhLen
       THEN [err |-> ErrReplyTooSmall, panic |-> "", kx |-> k]
       ELSE IF n < 0
       THEN [err |-> NoErr, panic |-> "makeslice: len out of range", kx |-> k1]
       ELSE IF n < lengthLen
       THEN [err |-> NoErr, panic |-> "index out of range", kx |-> k1]
       ELSE IF lengthLen + Len(k.kxBytes) > n
       THEN [err |-> NoErr, panic |-> "slice bounds out of range", kx |-> k1]
       ELSE IF ~randOK
       THEN [err |-> ErrRand, panic |-> "", kx |-> k1]
       ELSE [err |-> NoErr, panic |-> "", kx |-> k2]

\* exchange2 that takes a length prefix equal to the bytes available for truncated
exchange2_RejectsFullLength(k, mpErr, reply) ==
    LET msgLen == reply.len - nonceLen - secretboxOverhead
        avail == msgLen - lengthLen
    IN IF mpErr # NoErr
       THEN [err |-> mpErr, panic |-> "", out |-> <<>>]
       ELSE IF reply.len < nonceLen
       THEN [err |-> ErrReplyTooSmall, panic |-> "", out |-> <<>>]
       ELSE IF beginsWithZeros(k.sharedKey)
       THEN [err |-> NoErr, panic |-> "here", out |-> <<>>]
       ELSE IF ~OpenOK(reply, k.sharedKey)
       THEN [err |-> ErrAuth, panic |-> "", out |-> <<>>]
       ELSE IF msgLen < lengthLen
       THEN [err |-> ErrInvalid, panic |-> "", out |-> <<>>]
       ELSE IF reply.l >= avail
       THEN [err |-> ErrTruncated, panic |-> "", out |-> <<>>]
       ELSE [err |-> NoErr, panic |-> "", out |-> SubSeq(reply.data, 1, reply.l)]

\* exchange2 from the Meeting Place's answer on
exchange2(k, mpErr, reply) ==
    LET msgLen == reply.len - nonceLen - secretboxOverhead
        avail == msgLen - lengthLen
    IN IF mpErr # NoErr
       THEN [err |-> mpErr, panic |-> "", out |-> <<>>]
       ELSE IF reply.len < nonceLen
       THEN [err |-> ErrReplyTooSmall, panic |-> "", out |-> <<>>]
       ELSE IF beginsWithZeros(k.sharedKey)
       THEN [err |-> NoErr, panic |-> "here", out |-> <<>>]
       ELSE IF ~OpenOK(reply, k.sharedKey)
       THEN [err |-> ErrAuth, panic |-> "", out |-> <<>>]
       ELSE IF msgLen < lengthLen
       THEN [err |-> ErrInvalid, panic |-> "", out |-> <<>>]
       ELSE IF reply.l > avail
       THEN [err |-> ErrTruncated, panic |-> "", out |-> <<>>]
       ELSE [err |-> NoErr, panic |-> "", out |-> SubSeq(reply.data, 1, reply.l)]

(***************************************************************************)
(* Run(), cut at its two blocking Meeting Place calls.  A stage ends in   *)
(* kind "call1"/"call2" (Exchange is called with the first/second tag),   *)
(* "payload", "error" or "panic".                                          *)
(***************************************************************************)
Stage(kind, err, step, out, k) == [kind |-> kind, err |-> err, step |-> step, out |-> out, kx |-> k]

\* runInit without the shouldStop check after the transition
runInit_NoShouldStop(k, randOK, closed) ==
    LET r == derivePassword(k, randOK)
        k1 == updateSerialised([r.kx EXCEPT !.status = EXCHANGE1])
    IN IF r.err # NoErr
       THEN Stage("error", r.err, "derivePassword", <<>>, r.kx)
       ELSE IF ~k1.Log
       THEN Stage("panic", "nil func Log", "derivePassword", <<>>, k1)
       ELSE Stage("call1", NoErr, "", <<>>, k1)

\* Run, case INIT, up to the call of exchange1
runInit(k, randOK, closed) ==
    LET r == derivePassword(k, randOK)
        k1 == updateSerialised([r.kx EXCEPT !.status = EXCHANGE1])
    IN IF r.err # NoErr
       THEN Stage("error", r.err, "derivePassword", <<>>, r.kx)
       ELSE IF ~k1.Log
       THEN Stage("panic", "nil func Log", "derivePassword", <<>>, k1)
       ELSE IF shouldStop(k1, closed)
       THEN Stage("error", ShutdownErr, "shutdown", <<>>, k1)
       ELSE Stage("call1", NoErr, "", <<>>, k1)

\* runExchange1 that advances and persists before it looks at the step's error
runExchange1_PersistFirst(k, mpErr, reply, randOK, nonce, closed) ==
    LET r == exchange1(k, mpErr, reply, randOK, nonce)
        k1 == updateSerialised([r.kx EXCEPT !.status = EXCHANGE2])
    IN IF r.panic # ""
       THEN Stage("panic", r.panic, "exchange1", <<>>, r.kx)
       ELSE IF r.err # NoErr
       THEN Stage("error", r.err, "exchange1", <<>>, k1)
       ELSE IF ~k1.Log
       THEN Stage("panic", "nil func Log", "exchange1", <<>>, k1)
       ELSE IF shouldStop(k1, closed)
       THEN Stage("error", ShutdownErr, "shutdown", <<>>, k1)
       ELSE Stage("call2", NoErr, "", <<>>, k1)

\* Run, case EXCHANGE1, from the return of the Meeting Place up to the call of exchange2
runExchange1(k, mpErr, reply, randOK, nonce, closed) ==
    LET r == exchange1(k, mpErr, reply, randOK, nonce)
        k1 == updateSerialised([r.kx EXCEPT !.status = EXCHANGE2])
    IN IF r.panic # ""
       THEN Stage("panic", r.panic, "exchange1", <<>>, r.kx)
       ELSE IF r.err # NoErr
       THEN Stage("error", r.err, "exchange1", <<>>, r.kx)
       ELSE IF ~k1.Log
       THEN Stage("panic", "nil func Log", "exchange1", <<>>, k1)
       ELSE IF shouldStop(k1, closed)
       THEN Stage("error", ShutdownErr, "shutdown", <<>>, k1)
       ELSE Stage("call2", NoErr, "", <<>>, k1)

\* Run, case EXCHANGE2, from the return of the Meeting Place on
runExchange2(k, mpErr, reply) ==
    LET r == exchange2(k, mpErr, reply)
    IN IF r.panic # ""
       THEN Stage("panic", r.panic, "exchange2", <<>>, k)
       ELSE IF r.err # NoErr
       THEN Stage("error", r.err, "exchange2", <<>>, k)
       ELSE Stage("payload", NoErr, "exchange2", r.out, k)

\* runEntry that sends the first message again when the status is EXCHANGE2
runEntry_RestartAtExchange1(k, randOK, closed) ==
    IF k.status = INIT THEN runInit(k, randOK, closed)
    ELSE IF k.status = EXCHANGE1 THEN Stage("call1", NoErr, "", <<>>, k)
    ELSE IF k.status = EXCHANGE2 THEN Stage("call1", NoErr, "", <<>>, k)
    ELSE Stage("panic", "unknown state", "", <<>>, k)

\* Run, entry: the switch on kx.status
runEntry(k, randOK, closed) ==
    IF k.status = INIT THEN runInit(k, randOK, closed)
    ELSE IF k.status = EXCHANGE1 THEN Stage("call1", NoErr, "", <<>>, k)
    ELSE IF k.status = EXCHANGE2 THEN Stage("call2", NoErr, "", <<>>, k)
    ELSE Stage("panic", "unknown state", "", <<>>, k)

(***************************************************************************)
(* State                                                                   *)
(***************************************************************************)
VARIABLES
    kx,        \* kx[i]: the KeyExchange party i holds
    ctor,      \* ctor[i]: the error its constructor returned
    pc,        \* pc[i]: "idle", or "ex1"/"ex2" while Run() is blocked in Exchange
    result,    \* result[i]: what the last Run() of party i returned
    mp,        \* the Meeting Place: messages posted, by party and tag
    shutdown,  \* shutdown[i]: party i's ShutdownChan has been closed
    run,       \* run[i]: history of the current Run() invocation
    used,      \* used[i]: how often party i has called Run() and has resumed
    token,     \* secret string: the generated token,
    mutated,   \* a string one character away from it,
    verdict,   \* and what isValidSecretString said of it
    mutex,     \* who holds the sync.Mutex of party 1's exchange
    pending,   \* the updateSerialised that party 1's Run() is in the middle of
    reader,    \* the thread that calls Marshal() on party 1's exchange
    installed  \* the snapshots written to party 1's exchange while that thread runs

kxVars == <<kx, ctor, pc, result, mp, shutdown, run, used>>
tokenVars == <<token, mutated, verdict>>
concVars == <<mutex, pending, reader, installed>>
vars == <<kx, ctor, pc, result, mp, shutdown, run, used, token, mutated, verdict,
          mutex, pending, reader, installed>>

NoResult == [kind |-> "none", err |-> NoErr, step |-> "", out |-> <<>>]

\* run[i] (history only; no step reads it):
\*   calls        tags of the Exchange calls made so far in this invocation
\*   preShut      the shutdown signal was raised before Run() was called
\*   start        status at the call of Run()
\*   stepStatus, stepSnap   status and Marshal() when the latest step began
\*   genuine      every reply so far was what the peer posted at the same tag
\*   allGenuine   the same, over all invocations and resumes of the party
\*   tampered     the reply given to exchange2 was an altered copy of the peer's message2
\*   crossed      the reply given to exchange2 was the peer's message2, unaltered
\*   wasShutdown  the previous Run() of this exchange returned the shutdown error
\*   resumed      the exchange was rebuilt by UnmarshalKeyExchange
NoRun ==
    [calls |-> <<>>, preShut |-> FALSE, start |-> INIT, stepStatus |-> INIT, stepSnap |-> Absent,
     genuine |-> TRUE, allGenuine |-> TRUE, tampered |-> FALSE, crossed |-> FALSE, wasShutdown |-> FALSE,
     resumed |-> FALSE]

(***************************************************************************)
(* The Meeting Place (interface only in the sources): a store of the      *)
(* latest message of each party at each tag.  The mock swaps the two      *)
(* parties' messages at a tag; an untrusted one answers with anything it  *)
(* has seen, altered or not, or with an error.                            *)
(***************************************************************************)
Post(i, tag, msg) ==
    {m \in mp : ~(m.from = i /\ m.tag = tag)} \cup {[from |-> i, tag |-> tag, msg |-> msg]}

PeerPosted(i, tag) == {m.msg : m \in {x \in mp : x.from = Other(i) /\ x.tag = tag}}

\* one bit flipped in the nonce, or in the ciphertext
Tamper(msg) ==
    IF msg.t = "msg2"
    THEN {[msg EXCEPT !.nonce = 0], [msg EXCEPT !.intact = FALSE]}
    ELSE {}

ShortReply == [t |-> "short", len |-> nonceLen - 1]

PeerMessages(i) == {m.msg : m \in {x \in mp : x.from = Other(i)}}

\* what an untrusted Meeting Place may return in place of the peer's message
\* at the tag: to party 1 anything the peer posted, altered or not, or too
\* few bytes; to the peer anything party 1 posted
Untrusted(i) ==
    IF i = 1
    THEN PeerMessages(i) \cup UNION {Tamper(m) : m \in PeerMessages(i)} \cup {ShortReply}
    ELSE PeerMessages(i)

\* the nonce the random source returns to party i: a new one in every Run()
Nonce(i) == 10 * i + used[i].runs

ExchangeErrors(i) ==
    (IF i = 1 THEN {ErrMeetingPlace} ELSE {}) \cup (IF shouldStop(kx[i], shutdown[i]) THEN {ShutdownErr} ELSE {})

(***************************************************************************)
(* Initial states: both parties have called NewKeyExchange on the same    *)
(* Meeting Place and set ShutdownChan; Testing is left false.  The peer   *)
(* drew private key 1 and supplies a payload of one byte.                  *)
(***************************************************************************)
Secrets == {TextSecret(<<"p", "w", "1">>), TextSecret(<<"p", "w", "2">>)}

\* party i's payload of n bytes
Payload(i, n) == [j \in 1..n |-> 10 * i + j]

\* Padding() of the Meeting Places at hand: the largest payload fits the
\* larger one and not the smaller
Paddings ==
    {nonceLen + lengthLen + secretboxOverhead + MaxPayloadLen - 1,
     nonceLen + lengthLen + secretboxOverhead + MaxPayloadLen}

Fresh(i, d, padding, secret, n) ==
    LET r == NewKeyExchange(d, padding, secret, Payload(i, n))
    IN [err |-> r.err, kx |-> IF r.err = NoErr THEN [r.kx EXCEPT !.ShutdownChan = TRUE] ELSE r.kx]

\* no updateSerialised under way
NoPending == [at |-> "none", st |-> Stage("none", NoErr, "", <<>>, NilKx), g |-> NoRun]

\* Run() is the only thread
InitAlone ==
    /\ mutex = "none"
    /\ pending = NoPending
    /\ reader = [at |-> "off", got |-> Absent, prev |-> -1]
    /\ installed = {}

InitToken ==
    /\ token = <<>>
    /\ mutated = <<>>
    /\ verdict = ""

\* the two parties' secrets are a pair drawn from SS; the peer's private key
\* and payload length are drawn from D2 and N2
InitFrom(SS, D2, N2) ==
    \E padding \in Paddings, ss \in SS, d1 \in 1..MaxPriv, d2 \in D2,
       n1 \in 1..MaxPayloadLen, n2 \in N2 :
        LET f1 == Fresh(1, d1, padding, ss[1], n1)
            f2 == Fresh(2, d2, padding, ss[2], n2)
        IN /\ kx = (1 :> f1.kx) @@ (2 :> f2.kx)
           /\ ctor = (1 :> f1.err) @@ (2 :> f2.err)
           /\ pc = [i \in Parties |-> "idle"]
           /\ result = [i \in Parties |-> NoResult]
           /\ mp = {}
           /\ shutdown = [i \in Parties |-> FALSE]
           /\ run = [i \in Parties |-> NoRun]
           /\ used = [i \in Parties |-> [runs |-> 0, resumes |-> 0]]

\* party 1 holds secret pw1, the peer one of S2
InitWith(S2, D2, N2) == InitFrom({TextSecret(<<"p", "w", "1">>)} \X S2, D2, N2)

InitKx == InitWith(Secrets, {1}, {1})

Init == InitKx /\ InitToken /\ InitAlone

(***************************************************************************)
(* Actions of the key exchange                                             *)
(***************************************************************************)
\* the outcome st of a stage of party i's Run() takes effect; g is run[i] so far
Apply(i, st, g) ==
    /\ kx' = [kx EXCEPT ![i] = st.kx]
    /\ pc' = [pc EXCEPT ![i] = IF st.kind = "call1" THEN "ex1"
                                ELSE IF st.kind = "call2" THEN "ex2" ELSE "idle"]
    /\ result' = [result EXCEPT ![i] =
                    IF st.kind \in {"call1", "call2"} THEN NoResult
                    ELSE [kind |-> st.kind, err |-> st.err, step |-> st.step, out |-> st.out]]
    /\ mp' = IF st.kind = "call1" THEN Post(i, st.kx.meeting1, st.kx.message1)
             ELSE IF st.kind = "call2" THEN Post(i, st.kx.meeting2, st.kx.message2)
             ELSE mp
    /\ run' = [run EXCEPT ![i] =
                 IF st.kind = "call1"
                 THEN [g EXCEPT !.calls = Append(g.calls, 1),
                                !.stepStatus = st.kx.status, !.stepSnap = Marshal(st.kx)]
                 ELSE IF st.kind = "call2"
                 THEN [g EXCEPT !.calls = Append(g.calls, 2),
                                !.stepStatus = st.kx.status, !.stepSnap = Marshal(st.kx)]
                 ELSE g]
    /\ UNCHANGED <<ctor, shutdown>>
    /\ UNCHANGED tokenVars

\* the stage writes a new snapshot
Installs(i, st) == Marshal(st.kx) # Marshal(kx[i])

\* a stage of party i's Run() has been computed.  With no other thread about
\* it takes effect at once; while a thread calls Marshal() on party 1's
\* exchange, a stage of party 1 that writes a snapshot first goes through
\* the lock of updateSerialised
Settle(i, st, g) ==
    /\ i = 1 => pending.at = "none"
    /\ IF i = 1 /\ reader.at # "off" /\ Installs(i, st)
       THEN /\ pending' = [at |-> "Lock", st |-> st, g |-> g]
            /\ UNCHANGED <<kx, ctor, pc, result, mp, shutdown, run>>
            /\ UNCHANGED <<tokenVars, mutex, reader, installed>>
       ELSE /\ Apply(i, st, g)
            /\ UNCHANGED concVars

\* party i's caller has calls of Run() left
RunsLeft(i) == used[i].runs < RunBudget(i)

CanRun(i) ==
    ctor[i] = NoErr /\ pc[i] = "idle" /\ result[i].kind # "panic" /\ used[i].runs < RunBudget(i)

\* the caller calls Run()
RunCall(i, randOK) ==
    /\ CanRun(i)
    /\ used' = [used EXCEPT ![i].runs = @ + 1]
    /\ Settle(i, runEntry(kx[i], randOK, shutdown[i]),
              [run[i] EXCEPT !.calls = <<>>, !.preShut = shutdown[i], !.start = kx[i].status,
                             !.stepStatus = kx[i].status, !.stepSnap = Marshal(kx[i]),
                             !.genuine = TRUE, !.tampered = FALSE, !.crossed = FALSE,
                             !.wasShutdown = (result[i].err = ShutdownErr
                                              \/ (result[i].kind = "none" /\ run[i].wasShutdown))])

Run(i) == \E randOK \in {TRUE, i # 1} : RunCall(i, randOK)

\* the Meeting Place returns the peer's message at the first tag
Exchange1Swap(i, randOK) ==
    /\ UNCHANGED used
    /\ pc[i] = "ex1"
    /\ \E reply \in PeerPosted(i, kx[i].meeting1) :
          Settle(i, runExchange1(kx[i], NoErr, reply, randOK, Nonce(i), shutdown[i]), run[i])

\* the Meeting Place returns something else at the first tag
Exchange1Untrusted(i) ==
    /\ UNCHANGED used
    /\ pc[i] = "ex1"
    /\ \E reply \in (PeerMessages(i) \cup {ShortReply}) \ PeerPosted(i, kx[i].meeting1) :
          Settle(i, runExchange1(kx[i], NoErr, reply, TRUE, Nonce(i), shutdown[i]),
                 [run[i] EXCEPT !.genuine = FALSE, !.allGenuine = FALSE])

\* the Meeting Place returns an error from the first Exchange
Exchange1Error(i) ==
    /\ UNCHANGED used
    /\ pc[i] = "ex1"
    /\ \E e \in ExchangeErrors(i) :
          Settle(i, runExchange1(kx[i], e, NilBytes, TRUE, Nonce(i), shutdown[i]), run[i])

\* the Meeting Place returns the peer's message at the second tag
Exchange2Swap(i) ==
    /\ UNCHANGED used
    /\ pc[i] = "ex2"
    /\ \E reply \in PeerPosted(i, kx[i].meeting2) :
          Settle(i, runExchange2(kx[i], NoErr, reply),
                 [run[i] EXCEPT !.crossed = (reply = kx[Other(i)].message2)])

\* the Meeting Place returns something else at the second tag
Exchange2Untrusted(i) ==
    /\ UNCHANGED used
    /\ pc[i] = "ex2"
    /\ \E reply \in Untrusted(i) \ PeerPosted(i, kx[i].meeting2) :
          Settle(i, runExchange2(kx[i], NoErr, reply),
                 [run[i] EXCEPT !.genuine = FALSE, !.allGenuine = FALSE,
                                !.tampered = (reply \in Tamper(kx[Other(i)].message2)),
                                !.crossed = (reply = kx[Other(i)].message2)])

\* the Meeting Place returns an error from the second Exchange
Exchange2Error(i) ==
    /\ UNCHANGED used
    /\ pc[i] = "ex2"
    /\ \E e \in ExchangeErrors(i) :
          Settle(i, runExchange2(kx[i], e, NilBytes), run[i])

\* the caller closes ShutdownChan
Shutdown(i) ==
    /\ i = 1
    /\ ctor[i] = NoErr
    /\ pc[i] # "idle" \/ RunsLeft(i)
    /\ ~shutdown[i]
    /\ shutdown' = [shutdown EXCEPT ![i] = TRUE]
    /\ UNCHANGED <<kx, ctor, pc, result, mp, run, used>>
    /\ UNCHANGED <<tokenVars, concVars>>

\* the caller drops its exchange and rebuilds it from the Marshal() snapshot,
\* bound to a Meeting Place with the given Padding()
Resume(i, padding) ==
    /\ ctor[i] = NoErr
    /\ pc[i] = "idle"
    /\ used[i].resumes < ResumeBudget(i)
    /\ RunsLeft(i)
    /\ used' = [used EXCEPT ![i].resumes = @ + 1]
    /\ LET r == UnmarshalKeyExchange(padding, Marshal(kx[i]))
       IN /\ kx' = [kx EXCEPT ![i] = r.kx]
          /\ ctor' = [ctor EXCEPT ![i] = r.err]
    /\ result' = [result EXCEPT ![i] = NoResult]
    /\ run' = [run EXCEPT ![i] =
                 [NoRun EXCEPT !.resumed = TRUE, !.allGenuine = run[i].allGenuine,
                               !.wasShutdown = (result[i].err = ShutdownErr
                                                \/ (result[i].kind = "none" /\ run[i].wasShutdown))]]
    /\ UNCHANGED <<pc, mp, shutdown>>
    /\ UNCHANGED <<tokenVars, concVars>>

Unmarshal(i) == \E padding \in Paddings : Resume(i, padding)

\* the caller sets Log and a new, open ShutdownChan on its exchange
Configure(i) ==
    /\ ctor[i] = NoErr
    /\ pc[i] = "idle"
    /\ result[i].kind # "panic"
    /\ RunsLeft(i)
    /\ ~kx[i].Log \/ shutdown[i]
    /\ kx' = [kx EXCEPT ![i] = [@ EXCEPT !.Log = TRUE, !.ShutdownChan = TRUE]]
    /\ shutdown' = [shutdown EXCEPT ![i] = FALSE]
    /\ UNCHANGED <<ctor, pc, result, mp, run, used>>
    /\ UNCHANGED <<tokenVars, concVars>>

NextKx ==
    \E i \in Parties :
        \/ Run(i)
        \/ \E randOK \in {TRUE, i # 1} : Exchange1Swap(i, randOK)
        \/ Exchange1Untrusted(i)
        \/ Exchange1Error(i)
        \/ Exchange2Swap(i)
        \/ Exchange2Untrusted(i)
        \/ Exchange2Error(i)
        \/ Shutdown(i)
        \/ Unmarshal(i)
        \/ Configure(i)

(***************************************************************************)
(* Actions of the secret-string utility                                    *)
(***************************************************************************)
\* characters a typo may put in place of one of the token's
Alphabet ==
    {hexDigits[v] : v \in 1..16} \cup {hexUpper[v] : v \in 1..16} \cup {"r", "!", "[", "g"}

Generate(r) ==
    /\ token = <<>>
    /\ token' = NewSecretString(r)
    /\ UNCHANGED <<mutated, verdict>>
    /\ UNCHANGED <<kxVars, concVars>>

Mutate(pos, c) ==
    /\ token # <<>>
    /\ mutated = <<>>
    /\ token[pos] # c
    /\ mutated' = [token EXCEPT ![pos] = c]
    /\ UNCHANGED <<token, verdict>>
    /\ UNCHANGED <<kxVars, concVars>>

Validate ==
    /\ mutated # <<>>
    /\ verdict = ""
    /\ verdict' = IF isValidSecretString(mutated) THEN "valid" ELSE "invalid"
    /\ UNCHANGED <<token, mutated>>
    /\ UNCHANGED <<kxVars, concVars>>

NextToken ==
    \/ \E r \in 0..MaxSeed : Generate(r)
    \/ \E pos \in 1..(2 + 2 * secretDecodedLen), c \in Alphabet : Mutate(pos, c)
    \/ Validate

(***************************************************************************)
(* Specifications                                                          *)
(***************************************************************************)
Next == NextKx

\* the key exchange over an untrusted Meeting Place
Spec == Init /\ [][Next]_vars

\* two parties with the same secret over the mock Meeting Place, nothing failing
InitMock ==
    /\ InitWith({TextSecret(<<"p", "w", "1">>)}, 1..MaxPriv, 1..MaxPayloadLen)
    /\ InitToken
    /\ InitAlone
    /\ \A i \in Parties : ctor[i] = NoErr

NextMock ==
    \E i \in Parties :
        \/ RunCall(i, TRUE)
        \/ Exchange1Swap(i, TRUE)
        \/ Exchange2Swap(i)

SpecMock == InitMock /\ [][NextMock]_vars

\* the secret-string utility alone
InitTokenOnly ==
    /\ InitToken
    /\ InitAlone
    /\ kx = [i \in Parties |-> NilKx]
    /\ ctor = [i \in Parties |-> ErrTooLarge]
    /\ pc = [i \in Parties |-> "idle"]
    /\ result = [i \in Parties |-> NoResult]
    /\ mp = {}
    /\ shutdown = [i \in Parties |-> FALSE]
    /\ run = [i \in Parties |-> NoRun]
    /\ used = [i \in Parties |-> [runs |-> 0, resumes |-> 0]]

SpecToken == InitTokenOnly /\ [][NextToken]_vars

(***************************************************************************)
(* Properties                                                              *)
(***************************************************************************)
Returned(i) == pc[i] = "idle" /\ result[i].kind # "none"
SameSecret == kx[1].sharedSecret = kx[2].sharedSecret

\* C1: over the mock Meeting Place, with the same text secret on both sides,
\* every Run() that ends returns a payload, and that payload is exactly the
\* bytes the other party supplied.
C1_MockRunReturnsPeerPayload ==
    \A i \in Parties :
        Returned(i) => result[i].kind = "payload" /\ result[i].out = kx[Other(i)].kxBytes

\* a peer script for exchange k: the peer holds private key dp, derives from
\* the same secret and seals its payload for k's public value
PeerScript(k, dp, payload) ==
    LET mode == IF k.Testing \/ isStrongRandom(k.sharedSecret) THEN "hkdf" ELSE "scrypt"
        key == Derived(mode, toProto(k.sharedSecret), "key")
    IN [reply1 |-> Message1(key, ScalarBaseMult(dp), k.padding),
        reply2 |-> Message2(1, ScalarMult(dp, k.dhPublic), Len(payload),
                            PaddedData(payload, k.padding - nonceLen - secretboxOverhead),
                            k.padding)]

\* Run() to completion against a script, the random source working, no shutdown
RunScripted(k, script) ==
    LET s0 == runEntry(k, TRUE, FALSE)
        s1 == IF s0.kind = "call1"
              THEN runExchange1(s0.kx, NoErr, script.reply1, TRUE, 1, FALSE) ELSE s0
        s2 == IF s1.kind = "call2" THEN runExchange2(s1.kx, NoErr, script.reply2) ELSE s1
    IN [kind |-> s2.kind, err |-> s2.err, out |-> s2.out]

\* the exchange rebuilt from k's snapshot, with k's caller-set fields
Reloaded(k) ==
    [UnmarshalKeyExchange(k.padding, Marshal(k)).kx
        EXCEPT !.Log = k.Log, !.Testing = k.Testing, !.ShutdownChan = k.ShutdownChan]

RoundTripAgrees(k) ==
    \A dp \in 1..MaxPriv :
        RunScripted(Reloaded(k), PeerScript(k, dp, <<7>>)) = RunScripted(k, PeerScript(k, dp, <<7>>))

\* C2: at each status, an exchange rebuilt from the Marshal() snapshot ends a
\* scripted run exactly as the exchange that was never serialised does.
C2_RoundTripSameOutcome ==
    \A i \in Parties : ctor[i] = NoErr /\ pc[i] = "idle" => RoundTripAgrees(kx[i])

\* C3: a Run() whose second reply was an altered copy of the peer's second
\* message ends with the authentication error.
C3_TamperedSecondMessageFailsAuth ==
    \A i \in Parties :
        run[i].tampered /\ Returned(i)
            => result[i].kind = "error" /\ result[i].err = ErrAuth

SizeFaults == {"makeslice: len out of range", "index out of range", "slice bounds out of range"}

\* C4: an exchange from NewKeyExchange fits its Meeting Place, and no exchange
\* that can be run, fresh or rebuilt, fails or faults in a later step because
\* its payload does not fit.
C4_OversizeOnlyAtConstruction ==
    \A i \in Parties :
        ctor[i] = NoErr =>
            /\ ~run[i].resumed =>
                 nonceLen + lengthLen + Len(kx[i].kxBytes) + secretboxOverhead <= kx[i].padding
            /\ ~(result[i].kind = "panic" /\ result[i].err \in SizeFaults)
            /\ result[i].err # ErrInitialTooLarge

\* C5 as stated: with the shutdown signal raised before Run() is called, at
\* whatever status, Run() makes no Exchange call and returns the shutdown
\* error (a failure of password derivation set aside).
C5_PreShutdownNoExchangeAnyStatus ==
    \A i \in Parties :
        run[i].preShut =>
            /\ run[i].calls = <<>>
            /\ Returned(i) /\ result[i].step # "derivePassword" => result[i].err = ShutdownErr

\* C5 amended: with the shutdown signal raised before Run() is called on an
\* exchange at status INIT, Run() makes no Exchange call, and unless password
\* derivation fails or Log is unset it returns the shutdown error.
C5_PreShutdownNoExchangeFromInit ==
    \A i \in Parties :
        run[i].preShut /\ run[i].start = INIT =>
            /\ run[i].calls = <<>>
            /\ pc[i] = "idle"
            /\ result[i].step # "derivePassword"
                 => result[i].kind = "error" /\ result[i].err = ShutdownErr

C5_Witness ==
    /\ run[1].preShut /\ run[1].start = INIT
    /\ result[1].kind = "error" /\ result[1].err = ShutdownErr
    /\ kx[1].status = EXCHANGE1

\* C6: with different shared secrets the two session keys are never equal,
\* no Run() returns a payload, and a Run() that was given the peer's second
\* message ends with the authentication error.
C6_MismatchedSecretsFailAuth ==
    (\A i \in Parties : ctor[i] = NoErr) /\ ~SameSecret =>
        /\ \A i \in Parties : result[i].kind # "payload"
        /\ kx[1].sharedKey # Zero32 /\ kx[2].sharedKey # Zero32
             => kx[1].sharedKey # kx[2].sharedKey
        /\ \A i \in Parties :
             run[i].crossed /\ Returned(i)
                 => result[i].kind = "error" /\ result[i].err = ErrAuth

StepStatus(step) ==
    IF step = "derivePassword" THEN INIT ELSE IF step = "exchange1" THEN EXCHANGE1 ELSE EXCHANGE2

StepFailed(i) ==
    result[i].kind = "error" /\ result[i].step \in {"derivePassword", "exchange1", "exchange2"}

\* C7: when a step of Run() fails with an error, Run() has returned that
\* error, no Exchange call follows the failing step, and the status and the
\* Marshal() snapshot are what they were when the step began.
C7_FailedStepLeavesStateUntouched ==
    \A i \in Parties :
        StepFailed(i) =>
            /\ pc[i] = "idle"
            /\ kx[i].status = StepStatus(result[i].step)
            /\ kx[i].status = run[i].stepStatus
            /\ Marshal(kx[i]) = run[i].stepSnap
            /\ Marshal(kx[i]).Status = kx[i].status
            /\ \/ result[i].step = "derivePassword" /\ run[i].calls = <<>>
               \/ result[i].step = "exchange1" /\ run[i].calls \in {<<1>>}
               \/ result[i].step = "exchange2" /\ run[i].calls \in {<<2>>, <<1, 2>>}

C7_Witness ==
    /\ result[1].kind = "error" /\ result[1].step = "exchange1" /\ result[1].err = ErrRand
    /\ kx[1].sharedKey # Zero32
    /\ Marshal(kx[1]).SharedKey = Zero32

\* the caller-independent content of a snapshot matches the exchange in memory
SnapshotCurrent(k) == Marshal(updateSerialised(k)) = Marshal(k)

\* C8: when Run() returns the shutdown error from its check after a
\* transition, the snapshot carries the status just reached and the fields
\* computed so far; and the next Run() of that
\* exchange (or of one rebuilt from the snapshot), on the same Meeting Place
\* with a cooperating peer, the random source working and no new shutdown,
\* returns the peer's payload.
C8_ShutdownStateResumes ==
    \A i \in Parties :
        /\ result[i].kind = "error" /\ result[i].step = "shutdown"
             => kx[i].status \in {EXCHANGE1, EXCHANGE2} /\ SnapshotCurrent(kx[i])
        /\ ( /\ run[i].wasShutdown /\ Returned(i)
             /\ ~run[i].preShut /\ ~shutdown[i]
             /\ SameSecret /\ kx[i].Log /\ kx[i].padding = kx[Other(i)].padding
             /\ run[i].allGenuine /\ run[Other(i)].allGenuine
             /\ result[i].err \notin {ErrMeetingPlace, ErrRand, ShutdownErr} )
             => result[i].kind = "payload" /\ result[i].out = kx[Other(i)].kxBytes

\* C9: the status of a party's exchange never goes back and never skips a
\* step, whether Run() advances it, a step fails, or the exchange is rebuilt
\* from its snapshot.
C9_StatusAdvancesByOne ==
    [][\A i \in Parties :
          ctor[i] = NoErr /\ ctor'[i] = NoErr
              => kx'[i].status \in {kx[i].status, kx[i].status + 1}]_vars

C9_Witness ==
    /\ run[1].resumed
    /\ kx[1].status = EXCHANGE2
    /\ used[1].runs = MaxRuns

(***************************************************************************)
(* Properties of the secret-string utility                                 *)
(***************************************************************************)
\* the position at which mutated differs from token
MutatedAt == CHOOSE j \in 1..Len(token) : token[j] # mutated[j]

\* the 16 random bytes a (valid-looking) string carries
DataOf(str) == SubSeq(Decode(SubSeq(str, 3, Len(str))), 1, secretRandLen)

\* C10 as stated: no string one character away from a generated token is valid.
C10_AnyOneCharChangeInvalid == verdict # "valid"

\* the one-character changes validation cannot see: the second prefix
\* character turned into that of the other prefix, a hex letter turned into
\* its other case, and a change of the random bytes that keeps the first two
\* digest bytes
PrefixSwap == MutatedAt = 2 /\ mutated[2] = "["
CaseChange == MutatedAt > 2 /\ fromHexChar(mutated[MutatedAt]) = fromHexChar(token[MutatedAt])
ChecksumCollision ==
    /\ MutatedAt > 2
    /\ MutatedAt <= 2 + 2 * secretRandLen
    /\ DecodeOK(SubSeq(mutated, 3, Len(mutated)))
    /\ digest01(DataOf(mutated)) = digest01(DataOf(token))

\* C10 amended: a string one character away from a generated token is
\* invalid, unless the change is one of the three above.
C10_OneCharChangeInvalidUnlessUnseen ==
    verdict = "valid" => PrefixSwap \/ CaseChange \/ ChecksumCollision

C10_Witness ==
    /\ verdict = "invalid"
    /\ MutatedAt > 2 + 2 * secretRandLen
    /\ fromHexChar(mutated[MutatedAt]) >= 0

(***************************************************************************)
(* Persistence and the Exchange calls                                      *)
(***************************************************************************)
\* the messages party i has at the Meeting Place under tag
SentAt(i, tag) == {m.msg : m \in {x \in mp : x.from = i /\ x.tag = tag}}

\* C11: whenever Run() is blocked in Exchange with the first tag, Marshal()
\* has status EXCHANGE1 and holds exactly the first message that was handed
\* over; with the second tag, status EXCHANGE2 and exactly the second
\* message; and when the step before it ran in this invocation, the snapshot
\* holds everything that step computed.
C11_PersistBeforeSend ==
    \A i \in Parties :
        /\ pc[i] = "ex1" =>
             /\ Marshal(kx[i]).Status = EXCHANGE1
             /\ SentAt(i, kx[i].meeting1) = {Marshal(kx[i]).Message1}
        /\ pc[i] = "ex2" =>
             /\ Marshal(kx[i]).Status = EXCHANGE2
             /\ SentAt(i, kx[i].meeting2) = {Marshal(kx[i]).Message2}
        /\ pc[i] # "idle" /\ run[i].start # kx[i].status => SnapshotCurrent(kx[i])

\* an exchange rebuilt from its snapshot has gone through both steps in one Run()
C11_Witness ==
    \E i \in Parties : pc[i] = "ex2" /\ run[i].calls = <<1, 2>> /\ run[i].resumed

\* C12: every message handed to Exchange, with either tag, by a fresh or a
\* rebuilt exchange, is exactly Padding() bytes long, Padding() being that of
\* the Meeting Place the exchange is bound to.
C12_MessagesHavePaddingLength ==
    \A i \in Parties :
        /\ pc[i] = "ex1" => \A m \in SentAt(i, kx[i].meeting1) : m.len = kx[i].padding
        /\ pc[i] = "ex2" => \A m \in SentAt(i, kx[i].meeting2) : m.len = kx[i].padding

\* the tag sequences one Run() can make Exchange calls with, given the status it began at
CallsFrom(status) ==
    IF status = EXCHANGE2 THEN {<<>>, <<2>>} ELSE {<<>>, <<1>>, <<1, 2>>}

\* C13: in one Run() Exchange is called at most once per tag, the first tag
\* before the second, and only with the tag of the pending step; a Run() that
\* returned a step's error made its last call in that step and none after it.
C13_NoRetryWithinRun ==
    \A i \in Parties :
        /\ run[i].calls \in CallsFrom(run[i].start)
        /\ pc[i] = "ex1" => kx[i].status = EXCHANGE1 /\ run[i].calls = <<1>>
        /\ pc[i] = "ex2" => kx[i].status = EXCHANGE2 /\ run[i].calls[Len(run[i].calls)] = 2
        /\ Returned(i) /\ result[i].kind = "error" =>
             /\ pc[i] = "idle"
             /\ result[i].step = "derivePassword" => run[i].calls = <<>>
             /\ result[i].step = "exchange1" => run[i].calls = <<1>> /\ kx[i].status = EXCHANGE1
             /\ result[i].step = "exchange2" =>
                  run[i].calls[Len(run[i].calls)] = 2 /\ kx[i].status = EXCHANGE2

\* each kind of step error has ended a Run() after the call it came from
C13_Witness ==
    /\ result[1].kind = "error" /\ result[1].step = "exchange1"
    /\ result[1].err \in {ErrReplyTooSmall, ErrMeetingPlace}
    /\ result[2].kind = "error" /\ result[2].step = "exchange2" /\ result[2].err = ErrAuth

(***************************************************************************)
(* The second message as a peer that holds the session key may seal it     *)
(***************************************************************************)
\* the bytes such a peer puts after the length prefix
SealedBytes == {21, fillByte}

\* sealed blocks of 0 .. lengthLen + MaxPayloadLen plaintext bytes under key:
\* with fewer than lengthLen bytes there is no complete length prefix,
\* otherwise the prefix l may say anything up to one more than the bytes that follow
Sealed(key, nonce) ==
    {Message2(nonce, key, 0, <<>>, nonceLen + secretboxOverhead + n) : n \in 0..(lengthLen - 1)}
    \cup UNION { UNION { {Message2(nonce, key, l, data,
                                   nonceLen + secretboxOverhead + lengthLen + n) :
                            l \in 0..(n + 1)} :
                         data \in [1..n -> SealedBytes] } :
                 n \in 0..MaxPayloadLen }

\* the peer of party i posts a block sealed under the session key at the second tag
PeerSeals(i) ==
    /\ i = 1
    /\ pc[i] = "ex2"
    /\ \E m \in Sealed(kx[i].sharedKey, Nonce(Other(i))) :
          mp' = Post(Other(i), kx[i].meeting2, m)
    /\ UNCHANGED <<kx, ctor, pc, result, shutdown, run, used>>
    /\ UNCHANGED <<tokenVars, concVars>>

NextSealed ==
    \E i \in Parties :
        \/ RunCall(i, TRUE)
        \/ Exchange1Swap(i, TRUE)
        \/ Exchange2Swap(i)
        \/ PeerSeals(i)

\* two parties with the same secret over the mock Meeting Place, and a peer
\* that seals what it likes
InitSealed ==
    /\ InitWith({TextSecret(<<"p", "w", "1">>)}, {1}, {1})
    /\ InitToken
    /\ InitAlone
    /\ \A i \in Parties : ctor[i] = NoErr

SpecSealed == InitSealed /\ [][NextSealed]_vars

\* secretbox.Open is reached with this reply and returns ok
Authenticates(k, reply) ==
    /\ reply.len >= nonceLen
    /\ ~beginsWithZeros(k.sharedKey)
    /\ OpenOK(reply, k.sharedKey)

\* the decrypted bytes after the length prefix
Following(reply) == reply.len - nonceLen - secretboxOverhead - lengthLen

C15_PublicMatchesPrivate ==
    [][\A i \in Parties :
         /\ ctor[i] = NoErr => kx[i].dhPublic = ScalarBaseMult(kx[i].dhPrivate)
         /\ ctor'[i] = NoErr => kx'[i].dhPublic = ScalarBaseMult(kx'[i].dhPrivate)
         /\ used'[i].resumes = used[i].resumes =>
              kx'[i].dhPrivate = kx[i].dhPrivate /\ kx'[i].dhPublic = kx[i].dhPublic
      ]_vars

\* a rebuilt exchange has run its steps to the end with the pair it was created with
C15_Witness ==
    \E i \in Parties :
        /\ run[i].resumed /\ Returned(i) /\ result[i].step = "exchange2"
        /\ kx[i].dhPrivate > 0 /\ kx[i].dhPublic = ScalarBaseMult(kx[i].dhPrivate)

\* C18: at each status, the exchange UnmarshalKeyExchange builds from the
\* Marshal() snapshot holds the DH private key of the exchange that made the
\* snapshot; a key drawn by NewKeyExchange is never replaced by the all-zero one.
C18_RebuiltKeepsPrivateKey ==
    \A i \in Parties :
        ctor[i] = NoErr =>
            LET r == UnmarshalKeyExchange(kx[i].padding, Marshal(kx[i]))
            IN r.err = NoErr => r.kx.dhPrivate = kx[i].dhPrivate /\ r.kx.dhPrivate # 0

\* C19: a Run() of an exchange that has Log set, fresh or rebuilt, ends with a
\* payload or an error value, never with a panic.
C19_RunNeverPanics ==
    \A i \in Parties :
        Returned(i) /\ kx[i].Log => result[i].kind \in {"payload", "error"}

(***************************************************************************)
(* Shared secrets of every form, and their records                         *)
(***************************************************************************)
\* the SharedSecret values a caller may hand to NewKeyExchange: a text secret
\* or none, 0 .. MaxDecks decks of cards, an appointment or none, and a day
\* with or without a year
SharedSecrets ==
    {[Secret |-> s, Cards |-> [NumDecks |-> n, counts |-> [j \in 1..numCards |-> n]],
      Day |-> d, Month |-> IF y = 0 THEN 0 ELSE 6, Year |-> y, Hours |-> 0, Minutes |-> 0] :
        s \in {<<>>, <<"p", "w", "1">>}, n \in 0..MaxDecks, d \in {0, 5}, y \in {0, 2014}}

\* both parties hold the same secret, of any form, over the mock Meeting
\* Place; party 1 may rebuild its exchange from the snapshot
NextRecord ==
    \E i \in Parties :
        \/ RunCall(i, TRUE)
        \/ Exchange1Swap(i, TRUE)
        \/ Exchange2Swap(i)
        \/ Unmarshal(i)

InitRecord ==
    /\ InitFrom({<<s, s>> : s \in SharedSecrets}, {1}, {1})
    /\ InitToken
    /\ InitAlone

SpecRecord == InitRecord /\ [][NextRecord]_vars

HasText(p) == Len(p.Secret) > 0
HasDecks(p) == p.NumDecks > 0

\* C16: a shared-secret record that UnmarshalKeyExchange accepts has exactly
\* one of a non-empty text secret and a positive deck count; a record with
\* neither, and a record with both, is refused with the validation error.
C16_ExactlyOneSecretForm ==
    [][\A i \in Parties :
         used'[i].resumes > used[i].resumes =>
           LET p == Marshal(kx[i]).SharedSecret
           IN /\ ctor'[i] = NoErr => HasText(p) # HasDecks(p)
              /\ ~HasText(p) /\ ~HasDecks(p) => ctor'[i] = ErrInvalidSecret
              /\ HasText(p) /\ HasDecks(p) => ctor'[i] = ErrInvalidSecret
      ]_vars

\* C20: for an exchange from NewKeyExchange, after any Run() calls,
\* UnmarshalKeyExchange of the Marshal() snapshot returns an exchange, with
\* the same status, shared secret and payload.
C20_SnapshotAlwaysLoads ==
    \A i \in Parties :
        ctor[i] = NoErr /\ ~run[i].resumed /\ pc[i] = "idle" =>
            LET r == UnmarshalKeyExchange(kx[i].padding, Marshal(kx[i]))
            IN /\ r.err = NoErr
               /\ r.kx.status = kx[i].status
               /\ r.kx.sharedSecret = kx[i].sharedSecret
               /\ r.kx.kxBytes = kx[i].kxBytes

(***************************************************************************)
(* Marshal() from a second thread.  The snapshot is the only field the     *)
(* two threads share; updateSerialised and Marshal take the exchange's     *)
(* mutex around their access to it.                                        *)
(***************************************************************************)
\* sync.Mutex.Lock that returns although the mutex is held
Lock_NoExclusion(m) == TRUE

\* sync.Mutex.Lock returns once nobody holds the mutex
Lock(m) == m = "none"

\* the slice kx.serialised while the assignment to it is half done: the new
\* array with the old length, the new record cut short
Torn(old, new) ==
    [new EXCEPT !.Message1 = old.Message1, !.Message2 = old.Message2, !.SharedKey = old.SharedKey]

\* updateSerialised, kx.Lock()
updateSerialisedLock ==
    /\ pending.at = "Lock"
    /\ Lock(mutex)
    /\ mutex' = "Run"
    /\ pending' = [pending EXCEPT !.at = "Store"]
    /\ UNCHANGED <<kxVars, tokenVars, reader, installed>>

\* updateSerialised, kx.serialised = serialised: the store begins
updateSerialisedStore ==
    /\ pending.at = "Store"
    /\ kx' = [kx EXCEPT ![1].serialised = Torn(Marshal(kx[1]), Marshal(pending.st.kx))]
    /\ pending' = [pending EXCEPT !.at = "Stored"]
    /\ UNCHANGED <<ctor, pc, result, mp, shutdown, run, used>>
    /\ UNCHANGED <<tokenVars, mutex, reader, installed>>

\* updateSerialised, kx.serialised = serialised: the store is complete
updateSerialisedStored ==
    /\ pending.at = "Stored"
    /\ kx' = [kx EXCEPT ![1].serialised = Marshal(pending.st.kx)]
    /\ installed' = installed \cup {Marshal(pending.st.kx)}
    /\ pending' = [pending EXCEPT !.at = "Unlock"]
    /\ UNCHANGED <<ctor, pc, result, mp, shutdown, run, used>>
    /\ UNCHANGED <<tokenVars, mutex, reader>>

\* updateSerialised, the deferred kx.Unlock(), and the rest of the stage of Run()
updateSerialisedUnlock ==
    /\ pending.at = "Unlock"
    /\ mutex' = "none"
    /\ pending' = NoPending
    /\ Apply(1, pending.st, pending.g)
    /\ UNCHANGED <<used, reader, installed>>

\* Marshal, kx.Lock()
MarshalLock ==
    /\ reader.at = "idle"
    /\ Lock(mutex)
    /\ mutex' = "Marshal"
    /\ reader' = [reader EXCEPT !.at = "locked"]
    /\ UNCHANGED <<kxVars, tokenVars, pending, installed>>

\* Marshal, return kx.serialised: got is the value returned, prev the status
\* in the value returned before it
MarshalReturn ==
    /\ reader.at = "locked"
    /\ reader' = [at |-> "unlock", got |-> kx[1].serialised,
                  prev |-> IF reader.got = Absent THEN -1 ELSE reader.got.Status]
    /\ UNCHANGED <<kxVars, tokenVars, mutex, pending, installed>>

\* Marshal, the deferred kx.Unlock()
MarshalUnlock ==
    /\ reader.at = "unlock"
    /\ mutex' = "none"
    /\ reader' = [reader EXCEPT !.at = "idle"]
    /\ UNCHANGED <<kxVars, tokenVars, pending, installed>>

\* two parties with the same secret over the mock Meeting Place, and a
\* thread that calls Marshal() on party 1's exchange again and again
InitMarshal ==
    /\ InitWith({TextSecret(<<"p", "w", "1">>)}, {1}, {1})
    /\ InitToken
    /\ \A i \in Parties : ctor[i] = NoErr
    /\ mutex = "none"
    /\ pending = NoPending
    /\ reader = [at |-> "idle", got |-> Absent, prev |-> -1]
    /\ installed = {Marshal(kx[1])}

NextMarshal ==
    \/ \E i \in Parties :
        \/ RunCall(i, TRUE)
        \/ Exchange1Swap(i, TRUE)
        \/ Exchange2Swap(i)
    \/ updateSerialisedLock
    \/ updateSerialisedStore
    \/ updateSerialisedStored
    \/ updateSerialisedUnlock
    \/ MarshalLock
    \/ MarshalReturn
    \/ MarshalUnlock

SpecMarshal == InitMarshal /\ [][NextMarshal]_vars

\* C17: with Run() in one thread and Marshal() called from another at any
\* point, what Marshal() returns is one of the snapshots written so far, the
\* first one or one written after a transition, never a half-written one,
\* and the status in it is not below the status in the value returned before.
C17_MarshalReturnsWholeSnapshots ==
    reader.got # Absent =>
        /\ reader.got \in installed
        /\ reader.got.Status >= reader.prev

\* Marshal() has returned the snapshot of EXCHANGE1 and then, called again,
\* that of EXCHANGE2, the third snapshot written to the exchange
C17_Witness ==
    /\ reader.got # Absent /\ reader.got.Status = EXCHANGE2 /\ reader.prev = EXCHANGE1
    /\ reader.got = Marshal(kx[1]) /\ Cardinality(installed) = 3

====
